---- MODULE Spec2Model ----
(***************************************************************************)
(* A model of diffenator's font wrapper (Lib/diffenator/font.py):          *)
(*   - InputGenerator.all_inputs / input_from_name, the recursive search   *)
(*     for a (features, text) shaping input per glyph, as an explicit      *)
(*     call stack, one action per step of the search;                      *)
(*   - DFont: construction, set_variations, recalc_tables,                 *)
(*     recalc_input_map.                                                   *)
(* Glyph names are the integers 1..NumGlyphs.  Characters are code points  *)
(* (32 is the space, 0 the null character), a text is a sequence of code   *)
(* points.  Feature tags are integers ordered as the tag strings are:      *)
(* 0 is the empty string '', 1 "liga", 2 "smcp", 3 "ss01".                 *)
(***************************************************************************)
EXTENDS Integers, Sequences, FiniteSets, TLC

VARIABLES
    font,            \* the font file's tables: glyph order, cmap, GSUB rules, widths, fvar axes
    memo,            \* InputGenerator.memo: glyph name -> (features, text)
    seen,            \* the `seen` set of the running top-level input_from_name call
    stack,           \* the activations of input_from_name, innermost last
    retval,          \* the value the last finished activation returned
    pc,              \* where control is
    gi,              \* all_inputs: index of the loop over getGlyphOrder()
    inputs,          \* all_inputs: the list `inputs` being built
    gen,             \* ttfont identity the running InputGenerator was built on
    run,             \* which all_inputs call on this InputGenerator is running (1, 2)
    first,           \* what the first all_inputs call returned
    searches,        \* per glyph: how many times a search (lines 189-222) was started
    ttfont,          \* DFont._ttfont: [id, loc]
    glyphset,        \* DFont._glyphset
    input_map,       \* DFont._input_map
    axis_order,      \* DFont._axis_order
    axis_locations,  \* DFont._axis_locations
    tables,          \* DFont._glyphs, _marks, ... : the ttfont id each was dumped from
    printed,         \* what the last DFont call printed
    op,              \* the DFont call running or last finished
    request,         \* the axes dict of the last set_variations call
    calls            \* number of DFont calls made after construction

resolver == <<memo, seen, stack, retval, gi, inputs, gen, run, first, searches>>
dfont == <<ttfont, glyphset, input_map, axis_order, axis_locations, tables, printed, op, request, calls>>
vars == <<font, pc, resolver, dfont>>

----------------------------------------------------------------------------
(* Bounds of the checked fonts and call sequences.                         *)

NumGlyphs == 3
MaxRules == 3
MaxCalls == 2

Glyphs == 1..NumGlyphs

(* Python's None.  An empty list, tuple or dict is modelled by the same     *)
(* value: the program never holds both in one place.                       *)
None == <<>>

SPACE == 32
NUL == 0

Range(s) == {s[i] : i \in 1..Len(s)}

----------------------------------------------------------------------------
(* Values: tuples and strings as sequences of integers.                    *)

\* Python's < on str and on tuples of str: lexicographic, a proper prefix first.
SeqLess(a, b) ==
    \E i \in 1..(Len(a) + 1) :
        /\ \A j \in 1..(i - 1) : j <= Len(b) /\ a[j] = b[j]
        /\ \/ i = Len(a) + 1 /\ Len(b) >= i
           \/ i <= Len(a) /\ i <= Len(b) /\ a[i] < b[i]

\* Python's < on (features, text) tuples.
PairLess(p, q) ==
    \/ SeqLess(p[1], q[1])
    \/ p[1] = q[1] /\ SeqLess(p[2], q[2])

\* inputs[0] in place of min(inputs): the first candidate found
First(cands) == cands[1]

\* min(inputs)
Min(cands) ==
    CHOOSE p \in Range(cands) : \A q \in Range(cands) : ~PairLess(q, p)

\* unichr(c)
unichr(c) == <<c>>

\* ' ' * n
Spaces(n) == [k \in 1..n |-> SPACE]

\* characters.replace(' ', '')
StripSpaces(text) == SelectSeq(text, LAMBDA c : c # SPACE)

RECURSIVE SortedTuple(_)
SortedTuple(S) ==
    IF S = {} THEN <<>>
    ELSE LET m == CHOOSE x \in S : \A y \in S : x <= y
         IN <<m>> \o SortedTuple(S \ {m})

----------------------------------------------------------------------------
(* The fonts checked.  A font is                                           *)
(*   order     getGlyphOrder()                                             *)
(*   cmap      reverse_cmap: glyph name -> code point (a dict: partial)    *)
(*   rules     the GSUB substitution rules in enumeration order, each      *)
(*             [ins: input glyph sequence, out: produced glyph,            *)
(*              features: activating tags]                                 *)
(*   width     glyph_set[name].width, the advance width                    *)
(*   bbox      xMax - xMin of the outline                                  *)
(*   axes      fvar.axes: <<[tag, default]>>, empty without fvar           *)
(*   has_cmap  'cmap' in ttfont.keys()                                     *)

Rule(ins, out, tag) == [ins |-> ins, out |-> out, features |-> {tag}]

RuleUniverse ==
    { Rule(<<2, 3>>, 1, 1),     \* ligature  P H -> G   (liga)
      Rule(<<3>>, 2, 3),        \* single    H -> P     (ss01)
      Rule(<<2>>, 3, 1),        \* single    P -> H     (liga)
      Rule(<<2>>, 1, 2),        \* single    P -> G     (smcp)
      Rule(<<3>>, 1, 1),        \* single    H -> G     (liga)
      Rule(<<1>>, 2, 2),        \* single    G -> P     (smcp)
      Rule(<<1>>, 1, 1) }       \* single    G -> G     (liga)

Injective(f) == \A x, y \in DOMAIN f : f[x] = f[y] => x = y

RuleSeqs(n) ==
    {s \in UNION {[1..k -> RuleUniverse] : k \in 0..n} : Injective(s)}

Codes == {NUL, SPACE, 65}

\* every reverse cmap: a partial injective map from glyphs to code points
AllCmaps ==
    {f \in UNION {[D -> Codes] : D \in SUBSET Glyphs} : Injective(f)}

\* reverse cmaps of the fonts with many rules
GraphCmaps ==
    { <<>>,
      (1 :> 65),
      (2 :> 65),
      (1 :> 65) @@ (3 :> 66),
      (1 :> SPACE) @@ (2 :> 65),
      (1 :> NUL) @@ (2 :> 65) }

Spacing == [width |-> [g \in Glyphs |-> 2], bbox |-> [g \in Glyphs |-> 2]]

Metrics ==
    { Spacing,
      [width |-> [g \in Glyphs |-> 0], bbox |-> [g \in Glyphs |-> g]],
      [width |-> [g \in Glyphs |-> IF g = 1 THEN 2 ELSE 0],
       bbox |-> [g \in Glyphs |-> 3]],
      [width |-> [g \in Glyphs |-> 0], bbox |-> [g \in Glyphs |-> 0]] }

GlyphOrder == [i \in 1..NumGlyphs |-> i]

Font(cmap, rules, m, axes, has_cmap) ==
    [order |-> GlyphOrder, cmap |-> cmap, rules |-> rules,
     width |-> m.width, bbox |-> m.bbox, axes |-> axes, has_cmap |-> has_cmap]

\* fonts for the search: many rules, few cmaps; and few rules, every cmap and metrics
Fonts ==
    {Font(c, r, Spacing, <<>>, TRUE) : c \in GraphCmaps, r \in RuleSeqs(MaxRules)}
    \cup
    {Font(c, r, m, <<>>, TRUE) : c \in AllCmaps, r \in RuleSeqs(1), m \in Metrics}

----------------------------------------------------------------------------
(* HbInputGenerator.__init__: the tables the search reads.                 *)

\* self.widths[name]: the advance width, or the outline's width without one
widths(f, g) == IF f.width[g] # 0 THEN f.width[g] ELSE f.bbox[g]

\* self.space_width: the width of the glyph U+0020 maps to
space_width(f) ==
    IF \E g \in DOMAIN f.cmap : f.cmap[g] = SPACE
    THEN widths(f, CHOOSE g \in DOMAIN f.cmap : f.cmap[g] = SPACE)
    ELSE 0

\* index of the first rule at or after i that produces name; Len + 1 when none
NextRule(f, name, i) ==
    LET hits == {k \in i..Len(f.rules) : f.rules[k].out = name}
    IN IF hits = {} THEN Len(f.rules) + 1
       ELSE CHOOSE k \in hits : \A j \in hits : k <= j

----------------------------------------------------------------------------
(* InputGenerator.input_from_name, one activation per stack frame.         *)
(* A frame is at stage "entry" (called, at line 186) or "gsub" (past line  *)
(* 202, inside _inputs_from_gsub): cands is the list `inputs`, ri the rule *)
(* being followed, ci its next required input glyph, features and text     *)
(* what the rule's required inputs have given so far.                      *)

Frame(name, pad) ==
    [name |-> name, pad |-> pad, stage |-> "entry", cands |-> <<>>,
     ri |-> 0, ci |-> 1, features |-> {}, text |-> <<>>]

Top == stack[Len(stack)]
Pop == SubSeq(stack, 1, Len(stack) - 1)
SetTop(fr) == [stack EXCEPT ![Len(stack)] = fr]

\* lines 198-202: the simple unicode mapping
DirectInputs(f, name) ==
    IF name \in DOMAIN f.cmap /\ unichr(f.cmap[name]) # unichr(NUL)
    THEN << <<(<<>>), unichr(f.cmap[name])>> >>
    ELSE <<>>

\* lines 186-187
input_from_name_memo ==
    /\ pc = "call"
    /\ Top.name \in DOMAIN memo
    /\ retval' = memo[Top.name]
    /\ stack' = Pop
    /\ pc' = "return"
    /\ UNCHANGED <<font, memo, seen, gi, inputs, gen, run, first, searches, dfont>>

\* lines 192-195
input_from_name_cycle ==
    /\ pc = "call"
    /\ Top.name \notin DOMAIN memo
    /\ Top.name \in seen
    /\ retval' = None
    /\ stack' = Pop
    /\ pc' = "return"
    /\ UNCHANGED <<font, memo, seen, gi, inputs, gen, run, first, searches, dfont>>

\* the search entered without line 196, seen.add(name)
input_from_name_search_noadd ==
    /\ pc = "call"
    /\ Top.name \notin DOMAIN memo
    /\ Top.name \notin seen
    /\ seen' = seen
    /\ stack' = SetTop([Top EXCEPT !.stage = "gsub",
                                   !.cands = DirectInputs(font, Top.name),
                                   !.ri = NextRule(font, Top.name, 1)])
    /\ searches' = [searches EXCEPT ![Top.name] = @ + 1]
    /\ pc' = "gsub"
    /\ UNCHANGED <<font, memo, retval, gi, inputs, gen, run, first, dfont>>

\* lines 196-205: enter the search
input_from_name_search ==
    /\ pc = "call"
    /\ Top.name \notin DOMAIN memo
    /\ Top.name \notin seen
    /\ seen' = seen \cup {Top.name}
    /\ stack' = SetTop([Top EXCEPT !.stage = "gsub",
                                   !.cands = DirectInputs(font, Top.name),
                                   !.ri = NextRule(font, Top.name, 1)])
    /\ searches' = [searches EXCEPT ![Top.name] = @ + 1]
    /\ pc' = "gsub"
    /\ UNCHANGED <<font, memo, retval, gi, inputs, gen, run, first, dfont>>

\* _inputs_from_gsub: resolve the rule's next required input glyph
inputs_from_gsub_call ==
    /\ pc = "gsub"
    /\ Top.ri <= Len(font.rules)
    /\ Top.ci <= Len(font.rules[Top.ri].ins)
    /\ stack' = Append(stack, Frame(font.rules[Top.ri].ins[Top.ci], FALSE))
    /\ pc' = "call"
    /\ UNCHANGED <<font, memo, seen, retval, gi, inputs, gen, run, first, searches, dfont>>

\* _inputs_from_gsub: the recursive call returned to the rule it was made for
inputs_from_gsub_resume ==
    /\ pc = "return"
    /\ stack # <<>>
    /\ stack' = SetTop(
          IF retval = None
          THEN [Top EXCEPT !.cands = Append(@, None),
                           !.ri = NextRule(font, Top.name, Top.ri + 1),
                           !.ci = 1, !.features = {}, !.text = <<>>]
          ELSE [Top EXCEPT !.ci = @ + 1,
                           !.features = @ \cup Range(retval[1]),
                           !.text = @ \o retval[2]])
    /\ pc' = "gsub"
    /\ UNCHANGED <<font, memo, seen, retval, gi, inputs, gen, run, first, searches, dfont>>

\* _inputs_from_gsub: every required input resolved, the rule gives a candidate
inputs_from_gsub_append ==
    /\ pc = "gsub"
    /\ Top.ri <= Len(font.rules)
    /\ Top.ci > Len(font.rules[Top.ri].ins)
    /\ stack' = SetTop(
          [Top EXCEPT !.cands = Append(@,
                          <<SortedTuple(Top.features \cup font.rules[Top.ri].features),
                            Top.text>>),
                      !.ri = NextRule(font, Top.name, Top.ri + 1),
                      !.ci = 1, !.features = {}, !.text = <<>>])
    /\ UNCHANGED <<font, pc, memo, seen, retval, gi, inputs, gen, run, first, searches, dfont>>

\* lines 211-213
Compact(cands) == SelectSeq(cands, LAMBDA i : i # None)

\* lines 215-220
Selected(f, fr) ==
    LET best == Min(Compact(fr.cands))
        width == widths(f, fr.name)
        space == space_width(f)
        padding == Spaces((width \div space) + (IF width % space # 0 THEN 1 ELSE 0))
    IN IF fr.pad /\ space_width(f) > 0
       THEN <<best[1], padding \o best[2]>>
       ELSE best

\* line 221 left out: nothing is stored
Memoize_drop(m, name, value) == m

\* lines 221-222
Memoize(m, name, value) ==
    [g \in DOMAIN m \cup {name} |-> IF g = name THEN value ELSE m[g]]

\* lines 211-222: the search is over
input_from_name_select ==
    /\ pc = "gsub"
    /\ Top.ri > Len(font.rules)
    /\ IF Compact(Top.cands) = <<>>
       THEN /\ retval' = None
            /\ memo' = memo
       ELSE /\ memo' = Memoize(memo, Top.name, Selected(font, Top))
            /\ retval' = Selected(font, Top)
    /\ stack' = Pop
    /\ pc' = "return"
    /\ UNCHANGED <<font, seen, gi, inputs, gen, run, first, searches, dfont>>

----------------------------------------------------------------------------
(* InputGenerator.all_inputs                                               *)

Glyph(name, features, characters, f) ==
    [name |-> name, features |-> features, characters |-> characters, font |-> f]

\* lines 156-158: the loop takes the next glyph name and calls input_from_name
all_inputs_call ==
    /\ pc = "loop"
    /\ gi <= Len(font.order)
    /\ stack' = <<Frame(font.order[gi], font.width[font.order[gi]] = 0)>>
    /\ seen' = {}
    /\ pc' = "call"
    /\ UNCHANGED <<font, memo, retval, gi, inputs, gen, run, first, searches, dfont>>

\* lines 159-167 with features = () at line 166
Collected_empty(name, cur_input, f) ==
    IF cur_input # None
    THEN Glyph(name, cur_input[1], StripSpaces(cur_input[2]), f)
    ELSE Glyph(name, <<>>, <<>>, f)

\* lines 159-167
Collected(name, cur_input, f) ==
    IF cur_input # None
    THEN Glyph(name, cur_input[1], StripSpaces(cur_input[2]), f)
    ELSE Glyph(name, <<0>>, <<>>, f)

\* lines 159-167 without the else branch: a glyph with no input is left out
all_inputs_append_skip ==
    /\ pc = "return"
    /\ stack = <<>>
    /\ inputs' = IF retval # None
                 THEN Append(inputs, Collected(font.order[gi], retval, gen))
                 ELSE inputs
    /\ gi' = gi + 1
    /\ seen' = {}
    /\ pc' = "loop"
    /\ UNCHANGED <<font, memo, stack, retval, gen, run, first, searches, dfont>>

\* lines 159-167: the top-level call returned
all_inputs_append ==
    /\ pc = "return"
    /\ stack = <<>>
    /\ inputs' = Append(inputs, Collected(font.order[gi], retval, gen))
    /\ gi' = gi + 1
    /\ seen' = {}
    /\ pc' = "loop"
    /\ UNCHANGED <<font, memo, stack, retval, gen, run, first, searches, dfont>>

\* line 168
all_inputs_return ==
    /\ pc = "loop"
    /\ gi > Len(font.order)
    /\ first' = IF run = 1 THEN inputs ELSE first
    /\ pc' = "done"
    /\ UNCHANGED <<font, memo, seen, stack, retval, gi, inputs, gen, run, searches, dfont>>

\* all_inputs is called once more on the same InputGenerator
all_inputs_again ==
    /\ pc = "done"
    /\ run = 1
    /\ run' = 2
    /\ gi' = 1
    /\ inputs' = <<>>
    /\ pc' = "loop"
    /\ UNCHANGED <<font, memo, seen, stack, retval, gen, first, searches, dfont>>

Search ==
    \/ input_from_name_memo
    \/ input_from_name_cycle
    \/ input_from_name_search
    \/ inputs_from_gsub_call
    \/ inputs_from_gsub_resume
    \/ inputs_from_gsub_append
    \/ input_from_name_select
    \/ all_inputs_call
    \/ all_inputs_append
    \/ all_inputs_return

\* InputGenerator(font): HbInputGenerator.__init__ leaves an empty memo
NewGenerator(id) ==
    /\ memo = <<>>
    /\ seen = {}
    /\ stack = <<>>
    /\ retval = None
    /\ gi = 1
    /\ inputs = <<>>
    /\ gen = id
    /\ run = 1
    /\ first = <<>>
    /\ searches = [g \in Glyphs |-> 0]

NoDFont ==
    /\ ttfont = [id |-> 0, loc |-> <<>>]
    /\ glyphset = None
    /\ input_map = None
    /\ axis_order = None
    /\ axis_locations = None
    /\ tables = None
    /\ printed = <<>>
    /\ op = [name |-> "none", lazy |-> FALSE]
    /\ request = None
    /\ calls = 0

(* An InputGenerator on any of the fonts, all_inputs called on it twice.   *)
Init ==
    /\ font \in Fonts
    /\ pc = "loop"
    /\ NewGenerator(0)
    /\ NoDFont

Next ==
    \/ Search
    \/ all_inputs_again

Spec == Init /\ [][Next]_vars

FairSpec == Spec /\ WF_vars(Next)

----------------------------------------------------------------------------
(* DFont                                                                   *)

AxisTags(f) == [i \in 1..Len(f.axes) |-> f.axes[i].tag]
DeclaredTags(f) == Range(AxisTags(f))

\* lines 72-76: 'fvar' in self._src
is_variable == font.axes # <<>>

\* the order a request dict's keys are iterated in
TagOrder == <<"wght", "wdth", "zzzz">>

Keys(axes) == SelectSeq(TagOrder, LAMBDA t : t \in DOMAIN axes)

\* instantiateVariableFont(self._src, axes, inplace=False): a new font pinned at
\* the request's value on every declared axis, at the default where it has none
instantiateVariableFont(f, axes, id) ==
    [id |-> id,
     loc |-> [t \in DeclaredTags(f) |->
                IF t \in DOMAIN axes THEN axes[t]
                ELSE (CHOOSE a \in Range(f.axes) : a.tag = t).default]]

\* lines 83-84 starting from the coordinate of the call before
KeptLocations(f) ==
    IF axis_locations = None
    THEN [t \in DeclaredTags(f) |-> (CHOOSE a \in Range(f.axes) : a.tag = t).default]
    ELSE axis_locations

\* lines 83-84
DefaultLocations(f) ==
    [t \in DeclaredTags(f) |-> (CHOOSE a \in Range(f.axes) : a.tag = t).default]

\* lines 85-89 without the membership test: every requested tag is recorded
RECURSIVE ApplyAxes_record(_, _, _, _)
ApplyAxes_record(locs, out, axes, keys) ==
    IF keys = <<>> THEN [locations |-> locs, printed |-> out]
    ELSE LET axis == Head(keys)
         IN ApplyAxes_record(
                [t \in DOMAIN locs \cup {axis} |-> IF t = axis THEN axes[axis] ELSE locs[t]],
                out, axes, Tail(keys))

\* lines 85-89: the loop over the request's keys
RECURSIVE ApplyAxes(_, _, _, _)
ApplyAxes(locs, out, axes, keys) ==
    IF keys = <<>> THEN [locations |-> locs, printed |-> out]
    ELSE LET axis == Head(keys)
         IN IF axis \in DOMAIN locs
            THEN ApplyAxes([locs EXCEPT ![axis] = axes[axis]], out, axes, Tail(keys))
            ELSE ApplyAxes(locs, Append(out, <<"font has no axis called", axis>>),
                           axes, Tail(keys))

TableNames ==
    {"glyphs", "marks", "mkmks", "glyph_metrics", "attribs", "names", "kerns", "metrics"}

\* lines 103-113: every table is dumped from the font as it is now
recalc_tables(tt) == [t \in TableNames |-> tt.id]

\* line 67
InputDict(list) ==
    [n \in {list[i].name : i \in 1..Len(list)} |->
        list[CHOOSE i \in 1..Len(list) :
                /\ list[i].name = n
                /\ \A j \in 1..Len(list) : list[j].name = n => j <= i]]

\* lines 31-42: DFont(file, lazy), up to the call of _gen_inputs
DFont_init ==
    /\ pc = "main"
    /\ \E lazy \in BOOLEAN : op' = [name |-> "__init__", lazy |-> lazy]
    /\ ttfont' = [id |-> 0, loc |-> None]
    /\ pc' = "gen"
    /\ UNCHANGED <<font, resolver, glyphset, input_map, axis_order, axis_locations,
                   tables, printed, request, calls>>

\* lines 63-66 with one InputGenerator kept for every call: its memo stays
gen_inputs_reuse ==
    /\ pc = "gen"
    /\ IF font.has_cmap
       THEN /\ memo' = memo
            /\ gi' = 1
            /\ inputs' = <<>>
            /\ gen' = ttfont.id
            /\ run' = 1
            /\ searches' = [g \in Glyphs |-> 0]
            /\ pc' = "loop"
       ELSE /\ inputs' = <<>>
            /\ pc' = "done"
            /\ UNCHANGED <<memo, gi, gen, run, searches>>
    /\ UNCHANGED <<font, seen, stack, retval, first, dfont>>

\* lines 63-66: _gen_inputs up to the call of all_inputs
gen_inputs ==
    /\ pc = "gen"
    /\ IF font.has_cmap
       THEN /\ memo' = <<>>
            /\ gi' = 1
            /\ inputs' = <<>>
            /\ gen' = ttfont.id
            /\ run' = 1
            /\ searches' = [g \in Glyphs |-> 0]
            /\ pc' = "loop"
       ELSE /\ inputs' = <<>>
            /\ pc' = "done"
            /\ UNCHANGED <<memo, gi, gen, run, searches>>
    /\ UNCHANGED <<font, seen, stack, retval, first, dfont>>

\* lines 33-42: the rest of __init__ once _gen_inputs has returned
DFont_init_return ==
    /\ pc = "done"
    /\ op.name = "__init__"
    /\ glyphset' = IF font.has_cmap THEN InputDict(inputs) ELSE <<>>
    /\ axis_locations' = None
    /\ axis_order' = None
    /\ tables' = IF op.lazy THEN None ELSE recalc_tables(ttfont)
    /\ pc' = "ready"
    /\ UNCHANGED <<font, resolver, ttfont, input_map, printed, op, request, calls>>

\* lines 69-70, up to the call of _gen_inputs
recalc_input_map ==
    /\ pc = "ready"
    /\ calls < MaxCalls
    /\ calls' = calls + 1
    /\ op' = [name |-> "recalc_input_map", lazy |-> FALSE]
    /\ printed' = <<>>
    /\ pc' = "gen"
    /\ UNCHANGED <<font, resolver, ttfont, glyphset, input_map, axis_order,
                   axis_locations, tables, request>>

\* line 70, once _gen_inputs has returned
recalc_input_map_return ==
    /\ pc = "done"
    /\ op.name = "recalc_input_map"
    /\ input_map' = IF font.has_cmap THEN InputDict(inputs) ELSE <<>>
    /\ pc' = "ready"
    /\ UNCHANGED <<font, resolver, ttfont, glyphset, axis_order, axis_locations,
                   tables, printed, op, request, calls>>

\* lines 81-90 run without the test of line 80
set_variations_unchecked(axes) ==
    /\ pc = "ready"
    /\ calls < MaxCalls
    /\ calls' = calls + 1
    /\ op' = [name |-> "set_variations", lazy |-> FALSE]
    /\ request' = axes
    /\ LET applied == ApplyAxes(DefaultLocations(font), <<>>, axes, Keys(axes))
       IN /\ ttfont' = instantiateVariableFont(font, axes, ttfont.id + 1)
          /\ axis_order' = AxisTags(font)
          /\ axis_locations' = applied.locations
          /\ printed' = applied.printed
          /\ tables' = recalc_tables(ttfont')
    /\ UNCHANGED <<font, pc, resolver, glyphset, input_map>>

\* lines 78-92
set_variations(axes) ==
    /\ pc = "ready"
    /\ calls < MaxCalls
    /\ calls' = calls + 1
    /\ op' = [name |-> "set_variations", lazy |-> FALSE]
    /\ request' = axes
    /\ IF is_variable
       THEN LET applied == ApplyAxes(DefaultLocations(font), <<>>, axes, Keys(axes))
            IN /\ ttfont' = instantiateVariableFont(font, axes, ttfont.id + 1)
               /\ axis_order' = AxisTags(font)
               /\ axis_locations' = applied.locations
               /\ printed' = applied.printed
               /\ tables' = recalc_tables(ttfont')
       ELSE /\ printed' = <<"Not vf">>
            /\ UNCHANGED <<ttfont, axis_order, axis_locations, tables>>
    /\ UNCHANGED <<font, pc, resolver, glyphset, input_map>>

\* dfont._ttfont["OS/2"].usWeightClass of the fonts passed as dfont
WeightClasses == {400, 900}

\* lines 94-101 without the test of line 98
set_variations_from_static_untested(usWeightClass) ==
    set_variations(("wght" :> usWeightClass))

\* lines 94-101: variations holds the weight alone, and set_variations is
\* called with it only if the font is variable
set_variations_from_static(usWeightClass) ==
    IF is_variable
    THEN set_variations(("wght" :> usWeightClass))
    ELSE /\ pc = "ready"
         /\ calls < MaxCalls
         /\ calls' = calls + 1
         /\ UNCHANGED <<font, pc, resolver, ttfont, glyphset, input_map, axis_order,
                        axis_locations, tables, printed, op, request>>

\* the requests made: every dict over these tags and values
Requests ==
    {r \in UNION {[D -> {1, 300, 700}] : D \in SUBSET Range(TagOrder)} :
        /\ "zzzz" \in DOMAIN r => r["zzzz"] = 1
        /\ "wdth" \in DOMAIN r => r["wdth"] = 300
        /\ "wght" \in DOMAIN r => r["wght"] # 1}

Axis(tag, default) == [tag |-> tag, default |-> default]

\* the fonts loaded: static and variable, with and without a cmap
DFonts ==
    {Font(c, r, Spacing, a, h) :
        c \in {(1 :> 65)},
        r \in RuleSeqs(1) \cup {<<Rule(<<2>>, 1, 2), Rule(<<1>>, 2, 2)>>},
        a \in {<<>>, <<Axis("wght", 400)>>, <<Axis("wdth", 100)>>,
               <<Axis("wght", 400), Axis("wdth", 100)>>},
        h \in BOOLEAN}

InitFont ==
    /\ font \in DFonts
    /\ pc = "main"
    /\ NewGenerator(0)
    /\ NoDFont

NextFont ==
    \/ DFont_init
    \/ gen_inputs
    \/ Search
    \/ DFont_init_return
    \/ recalc_input_map
    \/ recalc_input_map_return
    \/ \E axes \in Requests : set_variations(axes)
    \/ \E usWeightClass \in WeightClasses : set_variations_from_static(usWeightClass)

SpecFont == InitFont /\ [][NextFont]_vars

----------------------------------------------------------------------------
(* Properties.                                                             *)

\* all_inputs recorded glyph i as resolved: input_from_name gave a pair
Resolved(list, i) == list[i].features # <<0>>

\* ceil(w / s)
CeilDiv(w, s) == (w \div s) + (IF w % s # 0 THEN 1 ELSE 0)

\* C1: after any sequence of set_variations calls the exposed glyphset is
\* the one resolved from the current font resource: no Glyph in it belongs
\* to an earlier _ttfont.
C1_GlyphsetCurrent ==
    (pc = "ready" /\ font.has_cmap) =>
        \A g \in DOMAIN glyphset : glyphset[g].font = ttfont.id

\* C2: all_inputs returns exactly one Glyph per glyph of the glyph order,
\* in glyph order, none omitted; a glyph with no input still has its entry,
\* carrying its name.
C2_Totality ==
    /\ pc \in {"loop", "call", "gsub", "return", "done"} =>
          /\ Len(inputs) = gi - 1
          /\ \A i \in 1..Len(inputs) : inputs[i].name = font.order[i]
    /\ pc = "done" => Len(inputs) = Len(font.order)

C2_Witness ==
    /\ pc = "done"
    /\ \E i, j \in 1..Len(inputs) : ~Resolved(inputs, i) /\ Resolved(inputs, j)

\* C3 as stated: the number of nested input_from_name activations never
\* exceeds the number of glyphs.
C3_DepthAtMostGlyphs == Len(stack) <= NumGlyphs

\* C3, amended: every top-level input_from_name call returns and all_inputs
\* returns, cycles or not, and the number of nested input_from_name
\* activations never exceeds the number of glyphs plus one (the one more
\* being the call that the memo check or the cycle guard sends back).
C3_Termination ==
    /\ [][Len(stack') <= NumGlyphs + 1]_vars
    /\ (stack # <<>>) ~> (stack = <<>>)
    /\ (pc = "loop") ~> (pc = "done")

C3_Witness ==
    /\ Len(stack) = NumGlyphs + 1
    /\ pc = "call"
    /\ Top.name \in seen

\* C4: a second all_inputs on the same InputGenerator, its memo filled by
\* the first, gives every glyph the same features, text and status.
C4_RerunSame == (pc = "done" /\ run = 2) => inputs = first

AfterSetVariations ==
    /\ pc = "ready"
    /\ op.name = "set_variations"
    /\ is_variable

Warnings(tag) ==
    {i \in 1..Len(printed) : printed[i] = <<"font has no axis called", tag>>}

\* C6: set_variations on a variable font with declared and undeclared tags
\* succeeds, applies every declared tag's value, prints exactly one warning
\* per undeclared tag, and leaves axis_locations (and the new font's pinned
\* coordinate) with exactly the declared tags as keys.
C6_UnknownAxes ==
    AfterSetVariations =>
        /\ DOMAIN axis_locations = DeclaredTags(font)
        /\ DOMAIN ttfont.loc = DeclaredTags(font)
        /\ \A t \in DOMAIN request \cap DeclaredTags(font) :
              axis_locations[t] = request[t] /\ ttfont.loc[t] = request[t]
        /\ \A t \in DOMAIN request \ DeclaredTags(font) : Cardinality(Warnings(t)) = 1
        /\ Len(printed) = Cardinality(DOMAIN request \ DeclaredTags(font))
        /\ tables = recalc_tables(ttfont)

C6_Witness ==
    /\ AfterSetVariations
    /\ DeclaredTags(font) = {"wght"}
    /\ DOMAIN request = {"wght", "zzzz"}
    /\ request["wght"] = 700
    /\ axis_locations = [t \in {"wght"} |-> 700]
    /\ Len(printed) = 1

\* C7: set_variations on a font that is not variable prints a warning and
\* changes nothing: font resource, glyphset, axis_order, axis_locations and
\* the derived tables are as before the call, whatever the request and
\* however many such calls were made.
C7_NotVariableNoOp ==
    [][ (pc = "ready" /\ calls' = calls + 1 /\ op'.name = "set_variations"
            /\ ~is_variable) =>
          /\ UNCHANGED <<font, ttfont, glyphset, input_map, axis_order, axis_locations,
                         tables>>
          /\ printed' = <<"Not vf">> ]_vars

C7_Witness ==
    /\ pc = "ready"
    /\ ~is_variable
    /\ op.name = "set_variations"
    /\ calls >= 2
    /\ request # None
    /\ printed = <<"Not vf">>
    /\ ttfont.id = 0

\* C8: on a variable font the pinned coordinate is that of the last
\* set_variations call alone: each declared axis has the value the last
\* call gave it, or its declared default when the last call did not name
\* it; axis_order is the declared order; the source font, and with it
\* is_variable, is never changed.
C8_LastCallAlone ==
    /\ (is_variable /\ ttfont.id > 0 /\ pc # "main") =>
          /\ axis_order = AxisTags(font)
          /\ \A a \in Range(font.axes) :
                LET v == IF a.tag \in DOMAIN request THEN request[a.tag] ELSE a.default
                IN axis_locations[a.tag] = v /\ ttfont.loc[a.tag] = v
    /\ (is_variable /\ pc = "ready" /\ calls < MaxCalls) =>
          \A axes \in Requests : ENABLED set_variations(axes)

C8_Witness ==
    /\ AfterSetVariations
    /\ calls >= 2
    /\ Len(font.axes) = 2
    /\ DOMAIN request = {"wdth"}
    /\ axis_locations["wght"] = 400
    /\ axis_locations["wdth"] = 300

\* C9: a resolvable glyph with zero advance width, visual width w and space
\* width s > 0 has in its Glyph from all_inputs a text that starts with
\* ceil(w / s) spaces, which its own text follows (stated for the glyphs
\* other than the space glyph itself).
C9_PaddingLaw ==
    pc = "done" =>
        \A i \in 1..Len(inputs) :
            LET g == font.order[i]
                s == space_width(font)
            IN (/\ font.width[g] = 0
                /\ s > 0
                /\ Resolved(inputs, i)
                /\ ~(g \in DOMAIN font.cmap /\ font.cmap[g] = SPACE)) =>
                  /\ Len(inputs[i].characters) > CeilDiv(widths(font, g), s)
                  /\ \A k \in 1..CeilDiv(widths(font, g), s) :
                        inputs[i].characters[k] = SPACE

\* C10: a glyph the reverse cmap gives a non-null code point c (no rule of
\* these fonts gives a candidate with empty features) has in its Glyph from
\* all_inputs no features and the text of exactly the one character c,
\* U+0020 included.
C10_DirectMapping ==
    pc = "done" =>
        \A i \in 1..Len(inputs) :
            LET g == font.order[i]
            IN (g \in DOMAIN font.cmap /\ font.cmap[g] # NUL) =>
                  /\ inputs[i].features = <<>>
                  /\ inputs[i].characters = unichr(font.cmap[g])

\* The step in which all_inputs takes the result of a top-level call that
\* found no input (lines 159, 165-167).
AppendsUnresolved == pc = "return" /\ stack = <<>> /\ retval = None

\* C11 (as stated): a glyph for which no input is found gets a Glyph with
\* empty text and an empty feature tuple.
C11_EmptyFeatureTuple ==
    [][AppendsUnresolved =>
          /\ inputs'[Len(inputs')].characters = <<>>
          /\ inputs'[Len(inputs')].features = <<>>]_vars

\* C11: a glyph for which no input is found gets a Glyph with its name,
\* empty text and the feature tuple ('',) whose only tag is the empty
\* string; no resolved glyph has that feature tuple.
C11_UnresolvedGlyph ==
    [][(pc = "return" /\ stack = <<>>) =>
          /\ Len(inputs') = Len(inputs) + 1
          /\ inputs'[Len(inputs')].name = font.order[gi]
          /\ IF retval = None
             THEN /\ inputs'[Len(inputs')].characters = <<>>
                  /\ inputs'[Len(inputs')].features = <<0>>
             ELSE inputs'[Len(inputs')].features # <<0>>]_vars

C11_Witness ==
    /\ pc = "done"
    /\ \E i \in 1..Len(inputs) :
          /\ inputs[i].features = <<0>>
          /\ inputs[i].characters = <<>>
          /\ font.order[i] \notin DOMAIN memo

\* C12: a Glyph of all_inputs has empty text only if no input was found for
\* its glyph: every glyph for which input_from_name returned a pair has a
\* non-empty text.
C12_EmptyTextOnlyUnresolved ==
    [][(pc = "return" /\ stack = <<>> /\ retval # None) =>
          inputs'[Len(inputs')].characters # <<>>]_vars

\* The state in which input_from_name has enumerated every candidate of the
\* glyph on top of the stack and found at least one (line 215 is next).
Selects == pc = "gsub" /\ Top.ri > Len(font.rules) /\ Compact(Top.cands) # <<>>

\* p is a candidate and no candidate is smaller in Python's tuple order
Smallest(p, cands) ==
    /\ p \in Range(cands) \ {None}
    /\ \A q \in Range(cands) \ {None} : ~PairLess(q, p)

\* C15 (as stated): with at least one candidate, the pair input_from_name
\* returns and caches is the smallest (features, text) pair among the
\* candidates.
C15_SmallestCandidate ==
    [][Selects =>
          /\ Smallest(retval', Top.cands)
          /\ Top.name \in DOMAIN memo'
          /\ memo'[Top.name] = retval']_vars

\* C15: with at least one candidate, input_from_name takes the smallest
\* (features, text) pair among the candidates, tag by tag with the shorter
\* tuple first and then by text; it returns and caches that pair's features
\* with that pair's text, which ceil(w / s) spaces precede when the call asks
\* for padding and the space width s is positive.  A font that maps U+0041 to
\* glyph 1 and produces glyph 2 from glyph 1 under smcp gives glyph 1 no
\* features and "A", and glyph 2 (smcp) and "A".
C15_SmallestThenPadded ==
    /\ [][Selects =>
            /\ \E c \in Range(Top.cands) \ {None} :
                  /\ Smallest(c, Top.cands)
                  /\ retval'[1] = c[1]
                  /\ retval'[2] =
                        (IF Top.pad /\ space_width(font) > 0
                         THEN Spaces(CeilDiv(widths(font, Top.name), space_width(font)))
                         ELSE <<>>) \o c[2]
            /\ Top.name \in DOMAIN memo'
            /\ memo'[Top.name] = retval']_vars
    /\ [](( /\ pc = "done"
            /\ font.cmap = (1 :> 65)
            /\ font.rules = <<Rule(<<1>>, 2, 2)>>
            /\ font.width = Spacing.width ) =>
              /\ inputs[1].features = <<>>
              /\ inputs[1].characters = <<65>>
              /\ inputs[2].features = <<2>>
              /\ inputs[2].characters = <<65>>)

\* glyph 2 comes from glyph 3 ("B") under ss01 and from glyph 1 ("A") under
\* smcp: the second candidate found is the smaller one
C15_Witness ==
    /\ pc = "done"
    /\ font.cmap = (1 :> 65) @@ (3 :> 66)
    /\ font.rules = <<Rule(<<3>>, 2, 3), Rule(<<1>>, 2, 2)>>
    /\ inputs[2].features = <<2>>
    /\ inputs[2].characters = <<65>>

\* The names whose search is in progress: the activations past line 196.
ActivePath == {stack[i].name : i \in {j \in 1..Len(stack) : stack[j].stage = "gsub"}}

\* C16: while a top-level call of input_from_name runs, seen holds exactly
\* the names on the active recursion path (a name leaves it when its
\* resolution returns), and between top-level calls it is empty.
C16_SeenIsActivePath ==
    /\ (pc \in {"call", "gsub"} \/ (pc = "return" /\ stack # <<>>)) =>
          seen = ActivePath
    /\ pc \in {"loop", "done"} => seen = {}

\* C17: the cycle guard fails only the branch that closes a cycle: a glyph
\* that has a rule whose every required input glyph is resolved in the same
\* run of all_inputs is not reported as having no input.
C17_OnlyCyclicBranchFails ==
    (pc = "done" /\ run = 1) =>
        \A i \in 1..Len(inputs) :
            (\E k \in 1..Len(font.rules) :
                /\ font.rules[k].out = font.order[i]
                /\ \A n \in Range(font.rules[k].ins) :
                      \E j \in 1..Len(inputs) :
                          font.order[j] = n /\ Resolved(inputs, j))
            => Resolved(inputs, i)

----------------------------------------------------------------------------
(* Two fonts that differ in an enumeration order only.  all_inputs runs on *)
(* an InputGenerator of the first font; then an InputGenerator is built on *)
(* a font with the same reverse cmap and the same rules, whose rules or    *)
(* whose glyphs come in another order, and all_inputs runs on it.  first   *)
(* keeps what the first font gave.                                         *)

Perms(n) == {p \in [1..n -> 1..n] : Injective(p)}

Permuted(s, p) == [i \in 1..Len(s) |-> s[p[i]]]

\* the orders a sequence can be put in, its own left out
Reorderings(s) == {Permuted(s, p) : p \in Perms(Len(s))} \ {s}

\* reverse cmaps of the fonts compared
OrderCmaps == { (2 :> 65), (1 :> 65) @@ (3 :> 66) }

\* the single substitutions of one glyph by another
OrderRules == {r \in RuleUniverse : Len(r.ins) = 1 /\ r.ins[1] # r.out}

OrderRuleSeqs ==
    {s \in UNION {[1..k -> OrderRules] : k \in 0..(MaxRules + 1)} : Injective(s)}

OrderFonts ==
    {Font(c, r, Spacing, <<>>, TRUE) : c \in OrderCmaps, r \in OrderRuleSeqs}

\* InputGenerator(font) on the font with the rules in another order
InputGenerator_rules ==
    /\ pc = "done"
    /\ run = 1
    /\ \E r \in Reorderings(font.rules) : font' = [font EXCEPT !.rules = r]
    /\ memo' = <<>>
    /\ searches' = [g \in Glyphs |-> 0]
    /\ run' = 2
    /\ gi' = 1
    /\ inputs' = <<>>
    /\ pc' = "loop"
    /\ UNCHANGED <<seen, stack, retval, gen, first, dfont>>

\* InputGenerator(font) on the font with the glyphs in another order
InputGenerator_order ==
    /\ pc = "done"
    /\ run = 1
    /\ \E o \in Reorderings(font.order) : font' = [font EXCEPT !.order = o]
    /\ memo' = <<>>
    /\ searches' = [g \in Glyphs |-> 0]
    /\ run' = 2
    /\ gi' = 1
    /\ inputs' = <<>>
    /\ pc' = "loop"
    /\ UNCHANGED <<seen, stack, retval, gen, first, dfont>>

InitOrder ==
    /\ font \in OrderFonts
    /\ pc = "loop"
    /\ NewGenerator(0)
    /\ NoDFont

NextOrder ==
    \/ Search
    \/ InputGenerator_rules
    \/ InputGenerator_order

SpecOrder == InitOrder /\ [][NextOrder]_vars

\* the Glyph a list returned by all_inputs holds for the glyph named g
ByName(list, g) == list[CHOOSE i \in 1..Len(list) : list[i].name = g]

\* both runs gave every glyph the same features and text (an unresolved
\* glyph has the features ('',) in both, or in neither)
SameInputs ==
    \A g \in Glyphs :
        /\ ByName(inputs, g).features = ByName(first, g).features
        /\ ByName(inputs, g).characters = ByName(first, g).characters

\* C14: two fonts with the same glyph order, reverse cmap and set of rules,
\* whose rules are enumerated in different orders, get from all_inputs the
\* same (features, text) and the same resolved or unresolved status for
\* every glyph.
C14_RuleOrderIndependent ==
    (pc = "done" /\ run = 2 /\ font.order = GlyphOrder) => SameInputs

\* C18: two fonts with the same reverse cmap and rules, whose glyph orders
\* are permutations of each other, get from all_inputs the same (features,
\* text) and the same resolved or unresolved status for every glyph.
C18_GlyphOrderIndependent ==
    (pc = "done" /\ run = 2 /\ font.order # GlyphOrder) => SameInputs

\* C20: set_variations_from_static(other) on a variable font makes exactly
\* one set_variations request, which holds the weight axis alone with
\* other's usWeightClass as its value: the font is instantiated once, the
\* pinned weight is that value if the font declares a weight axis, and every
\* other declared axis is at its default.  On a font that is not variable it
\* changes no state, makes no request and prints nothing.
C20_FromStatic ==
    [][\A w \in WeightClasses :
          set_variations_from_static(w) =>
             IF is_variable
             THEN /\ request' = ("wght" :> w)
                  /\ ttfont'.id = ttfont.id + 1
                  /\ DOMAIN axis_locations' = DeclaredTags(font)
                  /\ \A t \in DeclaredTags(font) :
                        axis_locations'[t] =
                           IF t = "wght" THEN w ELSE DefaultLocations(font)[t]
                  /\ ttfont'.loc = axis_locations'
                  /\ tables' = recalc_tables(ttfont')
             ELSE UNCHANGED <<ttfont, glyphset, input_map, axis_order,
                              axis_locations, tables, printed, request>>]_vars

\* the second call on a font with two axes: the width pinned by the call
\* before it is back at its default
C20_Witness ==
    /\ pc = "ready"
    /\ calls = 2
    /\ Len(font.axes) = 2
    /\ request = ("wght" :> 900)
    /\ axis_locations = ("wght" :> 900) @@ ("wdth" :> 100)
    /\ ttfont.id = 2

----------------------------------------------------------------------------
(* recalc_tables when one of the dumps it calls raises.  The dumps are     *)
(* called one after the other and each table is assigned as soon as its    *)
(* dump has returned; nothing catches an exception, so the call that       *)
(* raises ends recalc_tables and set_variations with it, and the caller    *)
(* still holds the DFont.                                                  *)

\* a table attribute that holds None (lines 38-39)
NoTable == -1

\* lines 105-113: the calls that can raise, in order
Dumps ==
    <<"DumpAnchors", "dump_glyphs", "dump_glyph_metrics", "dump_attribs",
      "dump_nametable", "dump_kerning", "dump_glyph_metrics">>

\* lines 106-113: the tables in the order they are assigned
AssignOrder ==
    <<"glyphs", "marks", "mkmks", "glyph_metrics", "attribs", "names", "kerns",
      "metrics">>

\* the number of tables assigned when the n-th call of Dumps starts
AssignedBefore == <<0, 0, 3, 4, 5, 6, 7>>

\* lines 103-113 when the n-th call of Dumps raises: the tables assigned
\* before it are the new font's, the others are what they were
recalc_tables_raise(old, tt, n) ==
    IF AssignedBefore[n] = 0 THEN old
    ELSE [t \in TableNames |->
            IF \E i \in 1..AssignedBefore[n] : AssignOrder[i] = t THEN tt.id
            ELSE IF old = None THEN NoTable
            ELSE old[t]]

\* lines 78-90 on a variable font, the n-th dump of recalc_tables raising
set_variations_raise(axes, n) ==
    /\ pc = "ready"
    /\ calls < MaxCalls
    /\ is_variable
    /\ calls' = calls + 1
    /\ op' = [name |-> "set_variations", lazy |-> FALSE, raised |-> Dumps[n]]
    /\ request' = axes
    /\ LET applied == ApplyAxes(DefaultLocations(font), <<>>, axes, Keys(axes))
       IN /\ ttfont' = instantiateVariableFont(font, axes, ttfont.id + 1)
          /\ axis_order' = AxisTags(font)
          /\ axis_locations' = applied.locations
          /\ printed' = applied.printed
          /\ tables' = recalc_tables_raise(tables, ttfont', n)
    /\ UNCHANGED <<font, pc, resolver, glyphset, input_map>>

NextRaise ==
    \/ NextFont
    \/ \E axes \in Requests, n \in 1..Len(Dumps) : set_variations_raise(axes, n)

SpecRaise == InitFont /\ [][NextRaise]_vars

\* C13: whenever a caller can look at the DFont, after a set_variations
\* that a dump ended part-way included, its tables (glyphs, marks, mkmks,
\* glyph_metrics, attribs, names, kerns) and its pinned axis coordinate all
\* come from the one font resource it holds; no table is of an older one.
C13_OneSnapshot ==
    pc = "ready" =>
        /\ tables # None =>
              \A t \in TableNames \ {"metrics"} : tables[t] = ttfont.id
        /\ axis_locations # None => axis_locations = ttfont.loc

----------------------------------------------------------------------------
(* Several DFonts: after the calls on one DFont another file is loaded     *)
(* (__main__.py lines 96-97 build font_a, then font_b).  The variables     *)
(* then hold the state of the DFont being built; the InputGenerator of the *)
(* DFont before it is left as it was.                                      *)

\* lines 31-42: DFont(file, lazy) for another file, up to the call of _gen_inputs
DFont_init_next ==
    /\ pc = "ready"
    /\ calls < MaxCalls
    /\ calls' = calls + 1
    /\ font' \in DFonts
    /\ \E lazy \in BOOLEAN : op' = [name |-> "__init__", lazy |-> lazy]
    /\ ttfont' = [id |-> 0, loc |-> None]
    /\ glyphset' = None
    /\ input_map' = None
    /\ axis_order' = None
    /\ axis_locations' = None
    /\ tables' = None
    /\ printed' = <<>>
    /\ request' = None
    /\ pc' = "gen"
    /\ UNCHANGED resolver

NextLoads ==
    \/ NextFont
    \/ DFont_init_next

SpecLoads == InitFont /\ [][NextLoads]_vars

\* C19: every generation of glyph inputs starts on an InputGenerator whose
\* memo is empty and which is bound to the font resource the DFont holds
\* then; a memo entry that a call returns was written by a search of the
\* same generation (searches counts the searches of the running generation
\* only), on that same font resource: none comes from a generation on
\* another file or on another instance of the variable font.
C19_MemoIsolation ==
    /\ [][(pc = "gen" /\ pc' = "loop") => (memo' = <<>> /\ gen' = ttfont.id)]_vars
    /\ [][(pc = "call" /\ Top.name \in DOMAIN memo /\ pc' = "return") =>
             /\ searches[Top.name] >= 1
             /\ gen = ttfont.id
             /\ retval' = memo[Top.name]]_vars

\* a memo entry is read in the generation recalc_input_map starts on the
\* instance set_variations has made, the file's own generation before it
C19_Witness ==
    /\ pc = "call"
    /\ Top.name \in DOMAIN memo
    /\ op.name = "recalc_input_map"
    /\ gen = 1
    /\ glyphset # None

====
